---- MODULE Spec2Model ----
(***************************************************************************)
(* terraform-provider-trinogateway: the gateway HTTP client                *)
(* (internal/trinogatewayclient/client.go) and the backend resource's      *)
(* lifecycle handlers Create, Read, Update, Delete and ImportState.        *)
(*                                                                         *)
(* One action per handler.  A handler's inputs (the plan, the import id,   *)
(* the caller's context and what the gateway answers to the one request)   *)
(* are drawn from small sets.  The variable `resource` is the configured    *)
(* BackendResource (its client), `state` is the tracked Terraform state of *)
(* the resource, `last` records the inputs and the outcome of the handler  *)
(* that ran last.                                                          *)
(*                                                                         *)
(* A response body is a sequence of lexical units (one unit stands for one *)
(* byte of a padding body, or one JSON token of a list body); the 1024     *)
(* byte cap of the client counts units.                                    *)
(***************************************************************************)
EXTENDS Integers, Sequences, FiniteSets, TLC

VARIABLES resource, state, last

vars == <<resource, state, last>>

(* ------------------------------ bounds --------------------------------- *)

\* longest list of entries a list response carries
MaxList == 3

\* how many units longer than the cap the longest response body is
Excess == 1

(* --------------------------- client.go --------------------------------- *)

maxResponseBodyLogSize == 1024

Min(a, b) == IF a < b THEN a ELSE b

\* type Backend struct
Backend(name, proxyTo, routingGroup, active, externalUrl) ==
    [Name |-> name, ProxyTo |-> proxyTo, RoutingGroup |-> routingGroup,
     Active |-> active, ExternalUrl |-> externalUrl]

\* the zero value of Backend
ZeroBackend == Backend("", "", "", FALSE, "")

\* a *Backend: nil, or a pointer to a value
NilBackend == [nil |-> TRUE, val |-> ZeroBackend]

PtrBackend(b) == [nil |-> FALSE, val |-> b]

\* a JSON object with the keys of Backend's json tags
JsonObject(name, proxyTo, routingGroup, active, externalUrl) ==
    [name |-> name, proxyTo |-> proxyTo, routingGroup |-> routingGroup,
     active |-> active, externalUrl |-> externalUrl]

EmptyObject == JsonObject("", "", "", FALSE, "")

\* json.Marshal(backend): the struct's fields under their json tags
Marshal(b) ==
    JsonObject(b.Name, b.ProxyTo, b.RoutingGroup, b.Active, b.ExternalUrl)

\* the JSON objects whose text occurs in a response body, by their text
Objects ==
    [t \in {"{}", "{trino-1}", "{trino-1'}", "{trino-2}"} |->
        CASE t = "{}" -> EmptyObject
          [] t = "{trino-1}" ->
               JsonObject("trino-1", "http://localhost:8085", "some", FALSE,
                          "http://trino-1:8081")
          [] t = "{trino-1'}" ->
               JsonObject("trino-1", "http://localhost:8086", "adhoc", TRUE, "")
          [] t = "{trino-2}" ->
               JsonObject("trino-2", "http://localhost:8085", "some", TRUE,
                          "http://localhost:8085")]

\* json.Unmarshal of one array element into a *Backend: null leaves the
\* pointer nil, an object fills a new Backend from its keys
DecodeElement(tok) ==
    IF tok = "null" THEN NilBackend
    ELSE PtrBackend(Backend(Objects[tok].name, Objects[tok].proxyTo,
                            Objects[tok].routingGroup, Objects[tok].active,
                            Objects[tok].externalUrl))

\* json.Unmarshal(responseBody, &allBackends) with allBackends []*Backend:
\* the literal null decodes to a nil slice without error, an array is decoded
\* element by element (an element that is neither null nor an object is a
\* type error), anything else is an error
Unmarshal(body) ==
    IF body = <<"null">>
    THEN [err |-> FALSE, list |-> <<>>]
    ELSE IF /\ Len(body) >= 2
            /\ body[1] = "["
            /\ body[Len(body)] = "]"
            /\ \A i \in 2..(Len(body) - 1) : body[i] \in {"null"} \cup DOMAIN Objects
    THEN [err |-> FALSE,
          list |-> [i \in 1..(Len(body) - 2) |-> DecodeElement(body[i + 1])]]
    ELSE [err |-> TRUE, list |-> <<>>]

\* context.Context as the client sees it: the caller's context, which may be
\* cancelled while a request is outstanding, or context.Background()
CallerCtx(cancelled) == [kind |-> "caller", cancelled |-> cancelled]

Background == [kind |-> "background", cancelled |-> FALSE]

\* the endpoints a provider may be configured with: the example's, the same
\* with a trailing slash, and one that yields no parsable URL
Endpoints == {"http://127.0.0.1:18080", "http://127.0.0.1:18080/", ":"}

\* strings.TrimSuffix(endpoint, "/")
TrimSuffix(endpoint) ==
    IF endpoint = "http://127.0.0.1:18080/" THEN "http://127.0.0.1:18080" ELSE endpoint

\* NewTrinoGatewayClient(endpoint, auth): any endpoint is accepted
NewTrinoGatewayClient(endpoint) == [endpoint |-> endpoint]

\* tg.getFullUrl(subpath): the trimmed endpoint followed by the subpath
getFullUrl(tg, subpath) == [base |-> TrimSuffix(tg.endpoint), path |-> subpath]

\* http.NewRequest(method, url, body): fails when the URL does not parse (":"
\* followed by a path has no scheme); the request carries context.Background()
NewRequest(method, url, body) ==
    [err |-> url.base = ":",
     request |-> [method |-> method, url |-> url, body |-> body, ctx |-> Background]]

\* tg.httpclient.Do(request): aborted when the request's context is cancelled,
\* failed on a transport error, else answered by the gateway
Do(request, net) ==
    IF request.ctx.cancelled THEN [err |-> TRUE, waited |-> FALSE]
    ELSE IF net.transportErr THEN [err |-> TRUE, waited |-> TRUE]
    ELSE [err |-> FALSE, waited |-> TRUE]

\* io.ReadAll(response.Body): what was read, and whether reading failed
ReadAll(net) ==
    IF net.readErrAt >= 0
    THEN [data |-> SubSeq(net.body, 1, Min(net.readErrAt, Len(net.body))), err |-> TRUE]
    ELSE [data |-> net.body, err |-> FALSE]

\* fmt.Errorf(format, ...): the format, its %d arguments and its %s arguments
Errorf(format, d, s) == [format |-> format, d |-> d, s |-> s]

NoError == Errorf("", <<>>, <<>>)

\* fmt.Errorf("bad http response code: %d, body: %s", response.StatusCode,
\*            responseBody[:min(len(responseBody), maxResponseBodyLogSize)])
BadStatus(status, responseBody) ==
    Errorf("bad http response code: %d, body: %s", <<status>>,
           <<SubSeq(responseBody, 1, Min(Len(responseBody), maxResponseBodyLogSize))>>)

\* a client call's result
Result(reqs, err, msg, list, waited) ==
    [reqs |-> reqs, err |-> err, msg |-> msg, list |-> list, waited |-> waited]

\* what the upsert and the delete call do with the request they built
CheckStatus(created, net) ==
    LET request == created.request
        response == Do(request, net)
        responseBody == ReadAll(net).data
    IN  IF created.err
        THEN Result(<<>>, TRUE, Errorf("cant create request: %w", <<>>, <<>>), <<>>, FALSE)
        ELSE IF response.err
        THEN Result(<<request>>, TRUE, Errorf("cant send request: %w", <<>>, <<>>),
                    <<>>, response.waited)
        ELSE IF net.status # 200
        THEN Result(<<request>>, TRUE, BadStatus(net.status, responseBody), <<>>, TRUE)
        ELSE Result(<<request>>, FALSE, NoError, <<>>, TRUE)

\* a variant that sends the request a second time when the first one fails
AddOrUpdateBackendRetry(tg, ctx, backend, net) ==
    LET created == NewRequest("POST", getFullUrl(tg, "/entity?entityType=GATEWAY_BACKEND"),
                              Marshal(backend))
        r == CheckStatus(created, net)
    IN  IF r.err /\ ~created.err
        THEN [r EXCEPT !.reqs = <<created.request, created.request>>]
        ELSE r

AddOrUpdateBackend(tg, ctx, backend, net) ==
    CheckStatus(NewRequest("POST", getFullUrl(tg, "/entity?entityType=GATEWAY_BACKEND"),
                           Marshal(backend)),
                net)

DeleteBackend(tg, ctx, name, net) ==
    CheckStatus(NewRequest("POST", getFullUrl(tg, "/gateway/backend/modify/delete"), name),
                net)

GetAllBackends(tg, ctx, net) ==
    LET created == NewRequest("GET", getFullUrl(tg, "/entity/GATEWAY_BACKEND"), "")
        request == created.request
        response == Do(request, net)
        read == ReadAll(net)
        decoded == Unmarshal(read.data)
    IN  IF created.err
        THEN Result(<<>>, TRUE, Errorf("cant create request: %w", <<>>, <<>>), <<>>, FALSE)
        ELSE IF response.err
        THEN Result(<<request>>, TRUE, Errorf("cant send request: %w", <<>>, <<>>),
                    <<>>, response.waited)
        ELSE IF read.err
        THEN Result(<<request>>, TRUE, Errorf("cant read response body", <<>>, <<>>), <<>>, TRUE)
        ELSE IF net.status # 200
        THEN Result(<<request>>, TRUE, BadStatus(net.status, read.data), <<>>, TRUE)
        ELSE IF decoded.err
        THEN Result(<<request>>, TRUE,
                    Errorf("cant unmarshal response: %w, body: %s", <<>>,
                           <<SubSeq(read.data, 1, Min(Len(read.data), maxResponseBodyLogSize))>>),
                    <<>>, TRUE)
        ELSE Result(<<request>>, FALSE, NoError, decoded.list, TRUE)

(* ------------------------- backend resource ---------------------------- *)

\* types.String / types.Bool of the plugin framework: null, unknown or known
StringNull == [k |-> "null", v |-> ""]

StringUnknown == [k |-> "unknown", v |-> ""]

StringValue(s) == [k |-> "known", v |-> s]

BoolNull == [k |-> "null", v |-> FALSE]

BoolValue(b) == [k |-> "known", v |-> b]

IsNull(x) == x.k = "null"

IsUnknown(x) == x.k = "unknown"

\* ValueString / ValueBool: the zero value unless known
ValueString(x) == IF x.k = "known" THEN x.v ELSE ""

ValueBool(x) == IF x.k = "known" THEN x.v ELSE FALSE

\* type BackendResourceModel struct, under its tfsdk names
BackendResourceModel(id, name, proxy_to, active, routing_group, external_url) ==
    [id |-> id, name |-> name, proxy_to |-> proxy_to, active |-> active,
     routing_group |-> routing_group, external_url |-> external_url]

\* var data BackendResourceModel: every attribute null
ZeroModel ==
    BackendResourceModel(StringNull, StringNull, StringNull, BoolNull, StringNull, StringNull)

\* the tracked state of the resource: absent, or a model
Absent == [present |-> FALSE, data |-> ZeroModel]

Present(data) == [present |-> TRUE, data |-> data]

\* what a handler leaves behind: the response state it set or removed (or left
\* as the host initialised it), whether the diagnostics hold an error, whether
\* it panicked, and the result of its client call
Outcome(write, data, diagErr, crashed, cres) ==
    [write |-> write, data |-> data, diagErr |-> diagErr, crashed |-> crashed,
     cres |-> cres]

\* a variant that leaves external_url unassigned
backendDomainToTfModelNoUrl(domainmodel, tfmodel) ==
    [tfmodel EXCEPT !.active = BoolValue(domainmodel.Active),
                    !.proxy_to = StringValue(domainmodel.ProxyTo),
                    !.name = StringValue(domainmodel.Name),
                    !.routing_group = StringValue(domainmodel.RoutingGroup)]

\* func backendDomainToTfModel(domainmodel, tfmodel): id is not assigned
backendDomainToTfModel(domainmodel, tfmodel) ==
    [tfmodel EXCEPT !.active = BoolValue(domainmodel.Active),
                    !.proxy_to = StringValue(domainmodel.ProxyTo),
                    !.name = StringValue(domainmodel.Name),
                    !.routing_group = StringValue(domainmodel.RoutingGroup),
                    !.external_url = StringValue(domainmodel.ExternalUrl)]

\* the scan of Read and of ImportState (the same loop, lines 156-161 and
\* 231-236): every entry's Name is read, so a nil entry panics; a later match
\* replaces an earlier one
RECURSIVE FindBackend(_, _, _, _)
FindBackend(backends, i, name, foundBackend) ==
    IF i > Len(backends) THEN [panic |-> FALSE, found |-> foundBackend]
    ELSE IF backends[i].nil THEN [panic |-> TRUE, found |-> foundBackend]
    ELSE FindBackend(backends, i + 1, name,
                     IF backends[i].val.Name = name THEN backends[i] ELSE foundBackend)

\* a variant that sends external_url as planned, without the default
DefaultExternalUrlSkipped(data) == data

\* the plan's data with external_url defaulted (lines 122-124 and 189-191)
DefaultExternalUrl(data) ==
    IF IsNull(data.external_url) \/ IsUnknown(data.external_url)
    THEN [data EXCEPT !.external_url = StringValue(ValueString(data.proxy_to))]
    ELSE data

\* the client-level record built from the plan (lines 116-125 and 183-192)
BackendOf(data) ==
    Backend(ValueString(data.name), ValueString(data.proxy_to),
            ValueString(data.routing_group), ValueBool(data.active),
            ValueString(data.external_url))

Create(r, ctx, plan, net) ==
    LET data == DefaultExternalUrl(plan)
        cres == AddOrUpdateBackend(r.client, ctx, BackendOf(data), net)
    IN  IF cres.err THEN Outcome("none", ZeroModel, TRUE, FALSE, cres)
        ELSE Outcome("set", [data EXCEPT !.id = StringValue(ValueString(data.name))],
                     FALSE, FALSE, cres)

Read(r, ctx, prior, net) ==
    LET cres == GetAllBackends(r.client, ctx, net)
        scan == FindBackend(cres.list, 1, ValueString(prior.name), NilBackend)
    IN  IF cres.err THEN Outcome("none", ZeroModel, TRUE, FALSE, cres)
        ELSE IF scan.panic THEN Outcome("none", ZeroModel, FALSE, TRUE, cres)
        ELSE IF scan.found.nil THEN Outcome("remove", ZeroModel, FALSE, FALSE, cres)
        ELSE Outcome("set", backendDomainToTfModel(scan.found.val, prior),
                     FALSE, FALSE, cres)

Update(r, ctx, plan, net) ==
    LET data == DefaultExternalUrl(plan)
        cres == AddOrUpdateBackend(r.client, ctx, BackendOf(data), net)
    IN  IF cres.err THEN Outcome("none", ZeroModel, TRUE, FALSE, cres)
        ELSE Outcome("set", data, FALSE, FALSE, cres)

\* on success the host removes the resource from the state
Delete(r, ctx, prior, net) ==
    LET cres == DeleteBackend(r.client, ctx, ValueString(prior.name), net)
    IN  IF cres.err THEN Outcome("none", ZeroModel, TRUE, FALSE, cres)
        ELSE Outcome("remove", ZeroModel, FALSE, FALSE, cres)

\* when no entry is found the error is added and backendDomainToTfModel then
\* dereferences the nil foundBackend
ImportState(r, ctx, id, net) ==
    LET cres == GetAllBackends(r.client, ctx, net)
        scan == FindBackend(cres.list, 1, id, NilBackend)
    IN  IF cres.err THEN Outcome("none", ZeroModel, TRUE, FALSE, cres)
        ELSE IF scan.panic THEN Outcome("none", ZeroModel, FALSE, TRUE, cres)
        ELSE IF scan.found.nil THEN Outcome("none", ZeroModel, TRUE, TRUE, cres)
        ELSE Outcome("set", backendDomainToTfModel(scan.found.val, ZeroModel),
                     FALSE, FALSE, cres)

(* ------------------------------ inputs --------------------------------- *)

Names == {"trino-1", "trino-2"}

ProxyUrls == {"", "http://localhost:8085"}

\* external_url of a plan: not configured (null, or unknown as a computed
\* attribute is planned), or configured, possibly as the empty string
ExternalUrls ==
    {StringNull, StringUnknown, StringValue(""), StringValue("http://trino-1:8081")}

\* the plan of a Create (id is computed, hence unknown) or of an Update (id
\* as planned from the prior state)
Plans(ids, names) ==
    {BackendResourceModel(id, StringValue(n), StringValue(p), BoolValue(FALSE),
                          StringValue("some"), e) :
        id \in ids, n \in names, p \in ProxyUrls, e \in ExternalUrls}

\* the entries the gateway may list: two different records under one name,
\* one under another name, and a JSON null
Entries == {"null", "{trino-1}", "{trino-1'}", "{trino-2}"}

\* past its second entry a list repeats records only
TailEntries == {"{trino-1'}", "{trino-2}"}

\* the lists of at most MaxList entries
EntryLists ==
    UNION {{l \in [1..n -> Entries] : \A i \in 3..n : l[i] \in TailEntries} :
              n \in 0..MaxList}

\* a body of n units that is no JSON
Pad(n) == [i \in 1..n |-> "x"]

\* JSON bodies: arrays of entries, the literal null, a lone object, and an
\* array holding a number
JsonBodies ==
    {<<"[">> \o l \o <<"]">> : l \in EntryLists}
        \cup {<<"null">>, <<"{}">>, <<"[", "7", "]">>}

\* what the network does to the one request: a transport error, or a response
\* with a status and a body whose reading may fail after readErrAt units
Net(transportErr, status, body, readErrAt) ==
    [transportErr |-> transportErr, status |-> status, body |-> body,
     readErrAt |-> readErrAt]

PlainNets ==
    {Net(TRUE, 0, <<>>, -1),
     Net(FALSE, 200, Pad(0), -1),
     Net(FALSE, 200, Pad(2), 1),
     Net(FALSE, 201, Pad(1), -1),
     Net(FALSE, 404, Pad(0), -1),
     Net(FALSE, 404, Pad(2), 1),
     Net(FALSE, 500, Pad(maxResponseBodyLogSize), -1),
     Net(FALSE, 500, Pad(maxResponseBodyLogSize + Excess), -1)}

ListNets == PlainNets \cup {Net(FALSE, 200, b, -1) : b \in JsonBodies}

\* the caller's context is cancelled while the request is outstanding only
\* for these answers
CancelNets ==
    {Net(TRUE, 0, <<>>, -1), Net(FALSE, 200, Pad(0), -1),
     Net(FALSE, 200, <<"[", "{trino-1}", "]">>, -1)}

Ctxs(net) == {CallerCtx(c) : c \in (IF net \in CancelNets THEN BOOLEAN ELSE {FALSE})}

(* --------------------------- state machine ----------------------------- *)

Last(op, name, plan, ctx, net, out) ==
    [op |-> op, name |-> name, plan |-> plan, ctx |-> ctx, net |-> net, out |-> out]

\* the provider is configured before any handler runs: Configure builds the
\* client from the endpoint and hands it to the resource
Init ==
    /\ resource \in {[client |-> NewTrinoGatewayClient(e)] : e \in Endpoints}
    /\ state = Absent
    /\ last = Last("none", "", ZeroModel, CallerCtx(FALSE), Net(TRUE, 0, <<>>, -1),
                   Outcome("none", ZeroModel, FALSE, FALSE,
                           Result(<<>>, FALSE, NoError, <<>>, FALSE)))

\* the state the host keeps after a handler: what the handler set, nothing
\* when it removed the resource, the prior state when it did neither
Apply(out) ==
    IF out.write = "set" THEN Present(out.data)
    ELSE IF out.write = "remove" THEN Absent
    ELSE state

DoCreate ==
    /\ ~state.present
    /\ \E plan \in Plans({StringUnknown}, Names), net \in PlainNets :
         \E ctx \in Ctxs(net) :
           \E out \in {Create(resource, ctx, plan, net)} :
               /\ state' = Apply(out)
               /\ UNCHANGED resource
               /\ last' = Last("Create", ValueString(plan.name), plan, ctx, net, out)

DoRead ==
    /\ state.present
    /\ \E net \in ListNets :
         \E ctx \in Ctxs(net) :
           \E out \in {Read(resource, ctx, state.data, net)} :
               /\ state' = Apply(out)
               /\ UNCHANGED resource
               /\ last' = Last("Read", ValueString(state.data.name), ZeroModel, ctx, net, out)

\* name forces replacement, so an Update's plan keeps the tracked name; id is
\* planned from the prior state when that is not null, else unknown
DoUpdate ==
    /\ state.present
    /\ \E plan \in Plans({IF IsNull(state.data.id) THEN StringUnknown ELSE state.data.id},
                         {ValueString(state.data.name)}),
          net \in PlainNets :
         \E ctx \in Ctxs(net) :
           \E out \in {Update(resource, ctx, plan, net)} :
               /\ state' = Apply(out)
               /\ UNCHANGED resource
               /\ last' = Last("Update", ValueString(plan.name), plan, ctx, net, out)

DoDelete ==
    /\ state.present
    /\ \E net \in PlainNets :
         \E ctx \in Ctxs(net) :
           \E out \in {Delete(resource, ctx, state.data, net)} :
               /\ state' = Apply(out)
               /\ UNCHANGED resource
               /\ last' = Last("Delete", ValueString(state.data.name), ZeroModel, ctx, net, out)

DoImport ==
    /\ ~state.present
    /\ \E id \in Names, net \in ListNets :
         \E ctx \in Ctxs(net) :
           \E out \in {ImportState(resource, ctx, id, net)} :
               /\ state' = Apply(out)
               /\ UNCHANGED resource
               /\ last' = Last("Import", id, ZeroModel, ctx, net, out)

Next == DoCreate \/ DoRead \/ DoUpdate \/ DoDelete \/ DoImport

Spec == Init /\ [][Next]_vars

(* ------------------------------ claims --------------------------------- *)

\* the handler that ran last, its client call and the list that call returned
Ran(ops) == last.op \in ops

Call == last.out.cres

Listed == Call.list

\* the positions of the list whose entry carries the name
Matches(name) == {i \in 1..Len(Listed) : ~Listed[i].nil /\ Listed[i].val.Name = name}

\* the last position of a non-empty set of positions
LastOf(S) == CHOOSE i \in S : \A j \in S : j <= i

\* external_url is not configured in the plan
Unset(plan) == plan.external_url.k \in {"null", "unknown"}

\* the external URL the plan asks for
WantedUrl(plan) ==
    IF Unset(plan) THEN ValueString(plan.proxy_to) ELSE plan.external_url.v

\* a response came back: no transport error
Answered == Len(Call.reqs) >= 1 /\ ~last.net.transportErr

\* the body is a JSON array of entity objects
ValidArray(body) ==
    /\ Len(body) >= 2
    /\ body[1] = "["
    /\ body[Len(body)] = "]"
    /\ \A i \in 2..(Len(body) - 1) : body[i] \in DOMAIN Objects

\* C1: Import of an identifier that names no entry of the returned list
\* signals an error, does not crash and writes no tracked state.
C1_ImportAbsentSignalsError ==
    (Ran({"Import"}) /\ ~Call.err /\ Matches(last.name) = {})
        => /\ last.out.diagErr
           /\ ~last.out.crashed
           /\ last.out.write = "none"
           /\ ~state.present

\* C2: Read removes the resource without an error when the list call succeeds
\* and no entry carries the tracked name; it reports an error only when the
\* list call fails, and then leaves the tracked state alone.
C2_ReadAbsentRemoves ==
    Ran({"Read"})
        => /\ (~Call.err /\ Matches(last.name) = {})
                => (last.out.write = "remove" /\ ~last.out.diagErr
                      /\ ~last.out.crashed /\ ~state.present)
           /\ last.out.diagErr <=> Call.err
           /\ Call.err => (last.out.write = "none" /\ state.present)

\* C3: Create and Update send an upsert record whose externalUrl is proxy_to
\* when external_url is unset and the supplied value when it is set, and on a
\* successful upsert write a tracked state with that same external_url.
C3_ExternalUrlDefaultsToProxyTo ==
    Ran({"Create", "Update"})
        => /\ \A i \in 1..Len(Call.reqs) :
                Call.reqs[i].body.externalUrl = WantedUrl(last.plan)
           /\ ~Call.err
                => /\ last.out.write = "set"
                   /\ state.present
                   /\ state.data.external_url = StringValue(WantedUrl(last.plan))

\* C3 witness: the Create of the example configuration without external_url,
\* answered 200: externalUrl was sent as proxy_to and is tracked as proxy_to.
C3_Witness ==
    /\ last.op = "Create"
    /\ last.plan.name = StringValue("trino-1")
    /\ last.plan.proxy_to = StringValue("http://localhost:8085")
    /\ IsUnknown(last.plan.external_url)
    /\ last.net.status = 200 /\ ~Call.err
    /\ Call.reqs[1].body.externalUrl = "http://localhost:8085"
    /\ state.present
    /\ state.data.external_url = StringValue("http://localhost:8085")

\* C4 as claimed: no record sent by an upsert and no tracked state written by
\* an operation has an empty external_url.
C4_ExternalUrlNeverEmpty ==
    /\ Ran({"Create", "Update"})
         => \A i \in 1..Len(Call.reqs) : Call.reqs[i].body.externalUrl # ""
    /\ last.out.write = "set" => ValueString(state.data.external_url) # ""

\* C4 as amended: every record sent by an upsert and every tracked state
\* written by an operation has a known external_url, and it is empty only
\* when the plan supplies the empty string, or leaves external_url unset with
\* an empty proxy_to, or (Read, Import) the gateway's entry has an empty
\* externalUrl.
C4_ExternalUrlEmptyOnlyAsSupplied ==
    /\ Ran({"Create", "Update"})
         => \A i \in 1..Len(Call.reqs) :
              Call.reqs[i].body.externalUrl = "" => WantedUrl(last.plan) = ""
    /\ last.out.write = "set"
         => /\ state.present
            /\ state.data.external_url.k = "known"
            /\ state.data.external_url.v = ""
                 => \/ Ran({"Create", "Update"}) /\ WantedUrl(last.plan) = ""
                    \/ /\ Ran({"Read", "Import"})
                       /\ \E i \in Matches(last.name) : Listed[i].val.ExternalUrl = ""

\* C4 witness: an Import adopted an entry whose externalUrl is empty.
C4_Witness ==
    /\ last.op = "Import"
    /\ last.out.write = "set"
    /\ state.present
    /\ state.data.external_url = StringValue("")

\* C5: upsert, delete and list succeed only on status 200; for every other
\* status the error message carries the status code and a prefix of the
\* response body of at most 1024 bytes.
C5_Non200IsErrorWithStatusAndBody ==
    ~Ran({"none"})
        => /\ ~Call.err => (Answered /\ last.net.status = 200)
           /\ (Answered /\ last.net.status # 200)
                => /\ Call.err
                   /\ Call.msg.d = <<last.net.status>>
                   /\ Len(Call.msg.s) = 1
                   /\ Len(Call.msg.s[1]) <= maxResponseBodyLogSize
                   /\ Call.msg.s[1] = SubSeq(last.net.body, 1, Len(Call.msg.s[1]))

\* C6: a 200 response whose body is no JSON array of entity objects makes the
\* list call return a decoding error, never a list, and Read and Import never
\* crash on an entry of a returned list.
C6_MalformedListIsDecodingError ==
    Ran({"Read", "Import"})
        => /\ (Answered /\ last.net.status = 200 /\ last.net.readErrAt < 0
                 /\ ~ValidArray(last.net.body))
                => (Call.err /\ Call.msg.format = "cant unmarshal response: %w, body: %s")
           /\ (\E i \in 1..Len(Listed) : Listed[i].nil) => ~last.out.crashed

\* C7: when several entries of the returned list carry the sought name, Read
\* and Import report no error and take proxy_to, routing_group, active and
\* external_url from the last of them.
C7_LastMatchWins ==
    (Ran({"Read", "Import"}) /\ ~Call.err /\ Cardinality(Matches(last.name)) >= 2)
        => LET found == Listed[LastOf(Matches(last.name))].val
           IN  /\ ~last.out.diagErr
               /\ ~last.out.crashed
               /\ last.out.write = "set"
               /\ state.present
               /\ state.data.name = StringValue(last.name)
               /\ state.data.proxy_to = StringValue(found.ProxyTo)
               /\ state.data.routing_group = StringValue(found.RoutingGroup)
               /\ state.data.active = BoolValue(found.Active)
               /\ state.data.external_url = StringValue(found.ExternalUrl)

\* the path a handler's request goes to
PathOf(op) ==
    CASE op \in {"Create", "Update"} -> "/entity?entityType=GATEWAY_BACKEND"
      [] op = "Delete" -> "/gateway/backend/modify/delete"
      [] op \in {"Read", "Import"} -> "/entity/GATEWAY_BACKEND"

\* C8 as claimed: every handler issues exactly one gateway request, of its
\* own kind, and when that request fails it reports the error and issues no
\* further request.
C8_ExactlyOneRequest ==
    ~Ran({"none"})
        => /\ Len(Call.reqs) = 1
           /\ \A i \in 1..Len(Call.reqs) : Call.reqs[i].url.path = PathOf(last.op)
           /\ Call.err => (last.out.diagErr /\ last.out.write = "none")

\* C8 as amended: every handler issues at most one gateway request, of its own
\* kind: exactly one, unless the request cannot be constructed from the
\* configured endpoint, and then none; when the request cannot be constructed
\* or fails, the handler reports the error and writes nothing.
C8_AtMostOneRequestNoRetry ==
    ~Ran({"none"})
        => /\ Len(Call.reqs) =
                (IF Call.err /\ Call.msg.format = "cant create request: %w" THEN 0 ELSE 1)
           /\ Len(Call.reqs) = 0 <=> TrimSuffix(resource.client.endpoint) = ":"
           /\ \A i \in 1..Len(Call.reqs) : Call.reqs[i].url.path = PathOf(last.op)
           /\ Call.err => (last.out.diagErr /\ last.out.write = "none")

\* C8 witness: an Update whose upsert was answered 500 reported the error
\* after its one request.
C8_Witness ==
    /\ last.op = "Update"
    /\ last.net.status = 500
    /\ Call.err
    /\ last.out.diagErr
    /\ Len(Call.reqs) = 1

\* C9: when the caller's context is cancelled while the request is
\* outstanding, the request is aborted and the operation returns an error
\* instead of waiting for the HTTP response.
C9_CancelAbortsRequest ==
    (~Ran({"none"}) /\ last.ctx.cancelled)
        => (Call.err /\ ~Call.waited /\ last.out.diagErr)

\* C10: every tracked state written by Create, Update, Read or Import has its
\* id set to the entity's name.
C10_IdIsName ==
    (Ran({"Create", "Update", "Read", "Import"}) /\ last.out.write = "set")
        => /\ state.present
           /\ state.data.id.k = "known"
           /\ state.data.id.v = ValueString(state.data.name)

====
